---- MODULE Spec2Model ----
(***************************************************************************)
(* TapToken: an IRC-2 token ledger with staking and day-change tracking.   *)
(* State machine of src/tap_token/tap_token.py.  Every external method is  *)
(* one action; a revert leaves the ledger unchanged and is recorded in the *)
(* observation variable `result`.                                          *)
(***************************************************************************)
EXTENDS Integers, Sequences, FiniteSets, TLC

\* ------------------------------------------------------------------ bounds
\* Largest _initialSupply given to on_install (decimals are 0 in Init).
MaxSupply == 2
\* Entries of the balance-change buffers: a transfer is recorded only while
\* the buffers are within this bound (see RecordNext and TrackNext).
MaxBuf == 2
\* Number of days the clock may advance.
MaxNow == 1

\* --------------------------------------------------------------- constants
\* One day.  The source counts microseconds (864 * 10 ** 8); the model counts
\* in units of 10 ** 8 microseconds so that timestamps stay within TLC's
\* integers.  All timestamps of the contract are in the same unit.
DAY_TO_MICROSECOND == 864

\* class Status
AVAILABLE == 0
STAKED == 1
UNSTAKING == 2
UNSTAKING_PERIOD == 3

\* Addresses.  "owner" deployed the SCORE; "score" is a contract address
\* (Address.is_contract), the others are externally owned accounts.
Addr == {"owner", "user", "score"}
owner == "owner"
NoAddress == "None"
is_contract(a) == a = "score"

VARIABLES
    total_supply, decimals, addresses, balances,
    changes, max_loop, index_update_balance, index_address_changes,
    balance_update_db, address_update_db,
    dividends_score, blacklist_address,
    staked_balances, minimum_stake, unstaking_period, total_staked_balance,
    stake_changes, stake_update_db, index_stake_changes,
    staking_enabled, switch_divs_to_staked_tap_enabled,
    paused, pause_whitelist, locklist,
    now,
    result,
    hist

\* The persistent state of the SCORE (everything a revert rolls back).
ledger == <<total_supply, decimals, addresses, balances,
            changes, max_loop, index_update_balance, index_address_changes,
            balance_update_db, address_update_db,
            dividends_score, blacklist_address,
            staked_balances, minimum_stake, unstaking_period, total_staked_balance,
            stake_changes, stake_update_db, index_stake_changes,
            staking_enabled, switch_divs_to_staked_tap_enabled,
            paused, pause_whitelist, locklist>>

vars == <<ledger, now, result, hist>>

\* ------------------------------------------------------------- containers
\* `x in array_db`
Contains(s, a) == \E i \in DOMAIN s : s[i] = a

\* ArrayDB.put
Put(s, a) == Append(s, a)

\* ArrayDB.pop: drops the last element
Pop(s) == SubSeq(s, 1, Len(s) - 1)

\* ArrayDB[i] for a Python index i: a negative index counts from the end;
\* an index outside the array raises (the transaction reverts).
InRange(s, i) == (i >= 0 /\ i < Len(s)) \/ (i < 0 /\ i + Len(s) >= 0)
ArrayGet(s, i) == IF i < 0 THEN s[i + Len(s) + 1] ELSE s[i + 1]

\* pop the top, then overwrite the removed address with it
SwapRemove(s, a) ==
    LET top == s[Len(s)]
        rest == Pop(s)
    IN IF top # a
       THEN [i \in DOMAIN rest |-> IF rest[i] = a THEN top ELSE rest[i]]
       ELSE rest

Min(a, b) == IF a < b THEN a ELSE b

RECURSIVE Pow10(_)
Pow10(n) == IF n = 0 THEN 1 ELSE 10 * Pow10(n - 1)

\* ------------------------------------------------------------ observation
\* What the last call returned: its name, whether it committed (FALSE: it
\* reverted), the page of addresses a drain returned and the boolean a clear
\* returned.
Result(op, ok, page, flag) == [op |-> op, ok |-> ok, page |-> page, flag |-> flag]

Ok(op) ==
    /\ result' = Result(op, TRUE, <<>>, FALSE)
    /\ UNCHANGED hist

\* revert(...): nothing of the ledger changes
Revert(op) ==
    /\ result' = Result(op, FALSE, <<>>, FALSE)
    /\ UNCHANGED <<ledger, now, hist>>

\* ---------------------------------------------------------------- history
\* What an observer of the balance dimension has seen since the last
\* switch_address_update_db (history only: no operation reads it).
\*   flipped    a flip has happened
\*   caught     at that flip the drain selector was the buffer then written
\*              and the drain cursor was not negative
\*   popped     since that flip a clear has popped an entry
\*   rewound    since that flip a drain has moved the cursor backwards
\*   advanced   the drain has auto-advanced since that flip
\*   newLen     length of the newly active buffer at the flip
\*   pending    entries of the buffer written before the flip that no drain
\*              had read, as they stood at the flip
\*   delivered  entries read by get_balance_updates since the flip, before
\*              the auto-advance and before any backward move
\* and of both dimensions, over the whole run:
\*   returned       addresses get_balance_updates has returned so far
\*   emptied        get_balance_updates has returned an empty page since the
\*                  last switch_address_update_db
\*   stakeReturned  addresses get_stake_updates has returned so far
\*   stakeEmptied   get_stake_updates has returned an empty page since the
\*                  last switch_stake_update_db
HistInit ==
    [flipped |-> FALSE, caught |-> FALSE, popped |-> FALSE, rewound |-> FALSE,
     advanced |-> FALSE, newLen |-> 0, pending |-> <<>>, delivered |-> <<>>,
     returned |-> {}, emptied |-> FALSE,
     stakeReturned |-> {}, stakeEmptied |-> FALSE]

HistFlip ==
    LET previous == changes[address_update_db]
        from == IF balance_update_db = address_update_db
                THEN index_update_balance
                ELSE index_address_changes
    IN [flipped |-> TRUE,
        caught |-> balance_update_db = address_update_db /\ index_update_balance >= 0,
        popped |-> FALSE,
        rewound |-> FALSE,
        advanced |-> FALSE,
        newLen |-> Len(changes[(address_update_db + 1) % 2]),
        pending |-> SubSeq(previous, (IF from > 0 THEN from ELSE 0) + 1, Len(previous)),
        delivered |-> <<>>,
        returned |-> hist.returned,
        emptied |-> FALSE,
        stakeReturned |-> hist.stakeReturned,
        stakeEmptied |-> hist.stakeEmptied]

\* the drain is between a flip and its auto-advance, and has not moved back
Window(h) == h.flipped /\ ~h.advanced /\ ~h.rewound

HistDeliver(h, read, start, end) ==
    IF Window(h)
    THEN IF end < start
         THEN [h EXCEPT !.rewound = TRUE]
         ELSE [h EXCEPT !.delivered = h.delivered \o read]
    ELSE h

HistAdvance(h) == IF h.flipped THEN [h EXCEPT !.advanced = TRUE] ELSE h

HistPop(h) == IF h.flipped THEN [h EXCEPT !.popped = TRUE] ELSE h

\* a drain of the balance dimension has returned page
HistReturn(h, page) ==
    IF page = <<>>
    THEN [h EXCEPT !.emptied = TRUE]
    ELSE [h EXCEPT !.returned = h.returned \cup {page[i] : i \in DOMAIN page}]

\* a drain of the stake dimension has returned page
HistStakeReturn(h, page) ==
    IF page = <<>>
    THEN [h EXCEPT !.stakeEmptied = TRUE]
    ELSE [h EXCEPT !.stakeReturned = h.stakeReturned \cup {page[i] : i \in DOMAIN page}]

HistStakeFlip(h) == [h EXCEPT !.stakeEmptied = FALSE]

\* -------------------------------------------------------------------- Init
\* A fresh database: every VarDB reads 0 / False / None and every ArrayDB
\* and DictDB is empty (__init__ only binds the containers).
__init__ ==
    /\ changes = [d \in 0..1 |-> <<>>]
    /\ max_loop = 0
    /\ index_update_balance = 0
    /\ index_address_changes = 0
    /\ balance_update_db = 0
    /\ address_update_db = 0
    /\ dividends_score = NoAddress
    /\ blacklist_address = <<>>
    /\ staked_balances = [a \in Addr |-> [s \in 0..3 |-> 0]]
    /\ minimum_stake = 0
    /\ unstaking_period = 0
    /\ total_staked_balance = 0
    /\ stake_changes = [d \in 0..1 |-> <<>>]
    /\ stake_update_db = 0
    /\ index_stake_changes = 0
    /\ staking_enabled = FALSE
    /\ paused = FALSE
    /\ pause_whitelist = <<>>
    /\ locklist = <<>>

on_install(_initialSupply, _decimals) ==
    /\ ~(_initialSupply < 0)
    /\ ~(_decimals < 0)
    /\ total_supply = _initialSupply * Pow10(_decimals)
    /\ decimals = _decimals
    /\ balances = [a \in Addr |-> IF a = owner THEN _initialSupply * Pow10(_decimals) ELSE 0]
    /\ addresses = <<owner>>

\* The deployed SCORE: __init__ and on_install on a fresh database.
Init ==
    /\ __init__
    /\ switch_divs_to_staked_tap_enabled = FALSE
    /\ \E _initialSupply \in 1..MaxSupply : on_install(_initialSupply, 0)
    /\ now = DAY_TO_MICROSECOND
    /\ result = Result("on_install", TRUE, <<>>, FALSE)
    /\ hist = HistInit

\* The deployed SCORE after the owner's first call,
\* toggle_switch_divs_to_staked_tap_enabled: dividends go to staked TAP, so
\* that transfers are not recorded in the balance-change buffers.
InitStakedDivs ==
    /\ __init__
    /\ switch_divs_to_staked_tap_enabled = TRUE
    /\ \E _initialSupply \in 1..MaxSupply : on_install(_initialSupply, 0)
    /\ now = DAY_TO_MICROSECOND
    /\ result = Result("toggle_switch_divs_to_staked_tap_enabled", TRUE, <<>>, FALSE)
    /\ hist = HistInit

\* ----------------------------------------------------------------- staking
_first_time(sb, _from) ==
    /\ sb[_from][AVAILABLE] = 0
    /\ sb[_from][STAKED] = 0
    /\ sb[_from][UNSTAKING] = 0
    /\ balances[_from] # 0

\* If first time copy the balance to available staked balances
_check_first_time(sb, _from) ==
    IF _first_time(sb, _from)
    THEN [sb EXCEPT ![_from][AVAILABLE] = balances[_from]]
    ELSE sb

\* _makeAvailable that zeroes the unstaking amount and forgets to credit it
_makeAvailable_uncredited(sb, _from) ==
    IF sb[_from][UNSTAKING_PERIOD] <= now
    THEN [sb EXCEPT ![_from][UNSTAKING] = 0]
    ELSE sb

\* Check if the unstaking period has already been reached.
_makeAvailable(sb, _from) ==
    IF sb[_from][UNSTAKING_PERIOD] <= now
    THEN [sb EXCEPT ![_from][UNSTAKING] = 0,
                    ![_from][AVAILABLE] = sb[_from][AVAILABLE] + sb[_from][UNSTAKING]]
    ELSE sb

\* stake whose old_stake leaves out the amount still unstaking
StakeRecord_staked_only(sb, _from, _value) ==
    LET old_stake == sb[_from][STAKED]
        new_stake == _value
        offset == new_stake - old_stake
        available == IF new_stake > old_stake
                     THEN sb[_from][AVAILABLE] - offset
                     ELSE sb[_from][AVAILABLE]
        unstake_amount == IF new_stake > old_stake THEN 0 ELSE old_stake - new_stake
    IN [sb EXCEPT ![_from] = [s \in 0..3 |->
            CASE s = AVAILABLE -> available
              [] s = STAKED -> _value
              [] s = UNSTAKING -> unstake_amount
              [] OTHER -> now + unstaking_period]]

\* lines 313-325 of stake: the new staking record of _from
StakeRecord(sb, _from, _value) ==
    LET old_stake == sb[_from][STAKED] + sb[_from][UNSTAKING]
        new_stake == _value
        offset == new_stake - old_stake
        available == IF new_stake > old_stake
                     THEN sb[_from][AVAILABLE] - offset
                     ELSE sb[_from][AVAILABLE]
        unstake_amount == IF new_stake > old_stake THEN 0 ELSE old_stake - new_stake
    IN [sb EXCEPT ![_from] = [s \in 0..3 |->
            CASE s = AVAILABLE -> available
              [] s = STAKED -> _value
              [] s = UNSTAKING -> unstake_amount
              [] OTHER -> now + unstaking_period]]

\* counter adjusted by the change of the target, unstaking included
StakeTotal_from_target(total, sb, _from, _value) ==
    total + (_value - (sb[_from][STAKED] + sb[_from][UNSTAKING]))

\* stake_increment = _value - staked, added to the total-staked counter
StakeTotal(total, sb, _from, _value) == total + (_value - sb[_from][STAKED])

\* if _from not in self._stake_changes[db]: put(_from)
RecordStake(sc, db, _from) ==
    IF ~Contains(sc[db], _from)
    THEN [sc EXCEPT ![db] = Put(sc[db], _from)]
    ELSE sc

\* stake that also rejects a value equal to the minimum
StakeValueOk_above_minimum(_from, _value) ==
    /\ ~(_value < 0)
    /\ ~(_value > balances[_from])
    /\ ~(_value <= minimum_stake /\ _value # 0)

StakeValueOk(_from, _value) ==
    /\ ~(_value < 0)
    /\ ~(_value > balances[_from])
    /\ ~(_value < minimum_stake /\ _value # 0)

\* stake whose locklist rejection returns instead of reverting: migration
\* and settlement, already written, survive the failed call
stake_returns_when_locked(sender, _value) ==
    LET _from == sender
        sb1 == _check_first_time(staked_balances, _from)
        sb2 == _makeAvailable(sb1, _from)
    IN IF ~staking_enabled \/ ~StakeValueOk(_from, _value)
       THEN Revert("stake")
       ELSE IF Contains(locklist, _from)
       THEN /\ staked_balances' = sb2
            /\ result' = Result("stake", FALSE, <<>>, FALSE)
            /\ UNCHANGED <<total_supply, decimals, addresses, balances,
                           changes, max_loop, index_update_balance, index_address_changes,
                           balance_update_db, address_update_db,
                           dividends_score, blacklist_address,
                           minimum_stake, unstaking_period, total_staked_balance,
                           stake_changes, stake_update_db, index_stake_changes,
                           staking_enabled, switch_divs_to_staked_tap_enabled,
                           paused, pause_whitelist, locklist, now, hist>>
       ELSE /\ staked_balances' = StakeRecord(sb2, _from, _value)
            /\ total_staked_balance' = StakeTotal(total_staked_balance, sb2, _from, _value)
            /\ stake_changes' = RecordStake(stake_changes, stake_update_db, _from)
            /\ Ok("stake")
            /\ UNCHANGED <<total_supply, decimals, addresses, balances,
                           changes, max_loop, index_update_balance, index_address_changes,
                           balance_update_db, address_update_db,
                           dividends_score, blacklist_address,
                           minimum_stake, unstaking_period,
                           stake_update_db, index_stake_changes,
                           staking_enabled, switch_divs_to_staked_tap_enabled,
                           paused, pause_whitelist, locklist, now>>

stake(sender, _value) ==
    LET _from == sender
        sb1 == _check_first_time(staked_balances, _from)
        sb2 == _makeAvailable(sb1, _from)
    IN IF ~staking_enabled \/ ~StakeValueOk(_from, _value) \/ Contains(locklist, _from)
       THEN Revert("stake")
       ELSE /\ staked_balances' = StakeRecord(sb2, _from, _value)
            /\ total_staked_balance' = StakeTotal(total_staked_balance, sb2, _from, _value)
            /\ stake_changes' = RecordStake(stake_changes, stake_update_db, _from)
            /\ Ok("stake")
            /\ UNCHANGED <<total_supply, decimals, addresses, balances,
                           changes, max_loop, index_update_balance, index_address_changes,
                           balance_update_db, address_update_db,
                           dividends_score, blacklist_address,
                           minimum_stake, unstaking_period,
                           stake_update_db, index_stake_changes,
                           staking_enabled, switch_divs_to_staked_tap_enabled,
                           paused, pause_whitelist, locklist, now>>

\* ---------------------------------------------------------------- transfer
\* debit and credit both computed from the balances read before the debit
TransferBalances_stale(b, _from, _to, _value) ==
    LET debit == b[_from] - _value
        credit == b[_to] + _value
    IN [[b EXCEPT ![_from] = debit] EXCEPT ![_to] = credit]

\* lines 358-359: debit _from, then credit _to (reads the debited map)
TransferBalances(b, _from, _to, _value) ==
    LET b1 == [b EXCEPT ![_from] = b[_from] - _value]
    IN [b1 EXCEPT ![_to] = b1[_to] + _value]

\* lines 361-362: the same on the available slots
TransferAvailable(sb, _from, _to, _value) ==
    LET sb1 == [sb EXCEPT ![_from][AVAILABLE] = sb[_from][AVAILABLE] - _value]
    IN [sb1 EXCEPT ![_to][AVAILABLE] = sb1[_to][AVAILABLE] + _value]

\* recording that checks the blacklist for the sender only
RecordTransfer_unfiltered_recipient(c, db, _from, _to) ==
    LET c1 == IF ~Contains(blacklist_address, _from)
              THEN [c EXCEPT ![db] = Put(c[db], _from)] ELSE c
    IN [c1 EXCEPT ![db] = Put(c1[db], _to)]

\* lines 375-380: put _from and _to, unless blacklisted, on today's buffer
RecordTransfer(c, db, _from, _to) ==
    LET c1 == IF ~Contains(blacklist_address, _from)
              THEN [c EXCEPT ![db] = Put(c[db], _from)] ELSE c
    IN IF ~Contains(blacklist_address, _to)
       THEN [c1 EXCEPT ![db] = Put(c1[db], _to)] ELSE c1

\* lines 350-353: migration and settlement of both endpoints
TransferSettle(sb, _from, _to) ==
    _makeAvailable(_makeAvailable(_check_first_time(_check_first_time(sb, _from), _to), _to), _from)

\* transfer that rejects every sender while paused
TransferAllowed_no_whitelist(sender) ==
    /\ ~paused
    /\ ~Contains(locklist, sender)

\* the checks of transfer (lines 333-336)
TransferAllowed(sender) ==
    /\ ~(paused /\ ~Contains(pause_whitelist, sender))
    /\ ~Contains(locklist, sender)

\* _transfer without the check of the available balance
TransferValueOk_unchecked_available(_from, _to, _value) ==
    /\ ~(_value < 0)
    /\ ~(balances[_from] < _value)

\* the checks of _transfer (lines 345-348, 355-356)
TransferValueOk(_from, _to, _value) ==
    /\ ~(_value < 0)
    /\ ~(balances[_from] < _value)
    /\ ~(TransferSettle(staked_balances, _from, _to)[_from][AVAILABLE] < _value)

\* _transfer.  hookOk: whether tokenFallback of a contract recipient returns
\* (TRUE) or raises (FALSE); it is not called for other recipients.
_transfer(_from, _to, _value, hookOk) ==
    IF ~TransferValueOk(_from, _to, _value) \/ (is_contract(_to) /\ ~hookOk)
    THEN Revert("transfer")
    ELSE /\ balances' = TransferBalances(balances, _from, _to, _value)
         /\ staked_balances' =
                TransferAvailable(TransferSettle(staked_balances, _from, _to), _from, _to, _value)
         /\ addresses' = IF ~Contains(addresses, _to) THEN Put(addresses, _to) ELSE addresses
         /\ changes' = IF ~switch_divs_to_staked_tap_enabled
                       THEN RecordTransfer(changes, address_update_db, _from, _to)
                       ELSE changes
         /\ Ok("transfer")
         /\ UNCHANGED <<total_supply, decimals,
                        max_loop, index_update_balance, index_address_changes,
                        balance_update_db, address_update_db,
                        dividends_score, blacklist_address,
                        minimum_stake, unstaking_period, total_staked_balance,
                        stake_changes, stake_update_db, index_stake_changes,
                        staking_enabled, switch_divs_to_staked_tap_enabled,
                        paused, pause_whitelist, locklist, now>>

transfer(sender, _to, _value, hookOk) ==
    IF ~TransferAllowed(sender)
    THEN Revert("transfer")
    ELSE _transfer(sender, _to, _value, hookOk)


\* ------------------------------------------------------ owner configuration
_owner_only(sender) == sender = owner

_dividends_only(sender) == sender = dividends_score

toggle_staking_enabled(sender) ==
    IF ~_owner_only(sender)
    THEN Revert("toggle_staking_enabled")
    ELSE /\ staking_enabled' = ~staking_enabled
         /\ Ok("toggle_staking_enabled")
         /\ UNCHANGED <<total_supply, decimals, addresses, balances,
                        changes, max_loop, index_update_balance, index_address_changes,
                        balance_update_db, address_update_db,
                        dividends_score, blacklist_address,
                        staked_balances, minimum_stake, unstaking_period, total_staked_balance,
                        stake_changes, stake_update_db, index_stake_changes,
                        switch_divs_to_staked_tap_enabled,
                        paused, pause_whitelist, locklist, now>>

toggle_switch_divs_to_staked_tap_enabled(sender) ==
    IF ~_owner_only(sender)
    THEN Revert("toggle_switch_divs_to_staked_tap_enabled")
    ELSE /\ switch_divs_to_staked_tap_enabled' = ~switch_divs_to_staked_tap_enabled
         /\ Ok("toggle_switch_divs_to_staked_tap_enabled")
         /\ UNCHANGED <<total_supply, decimals, addresses, balances,
                        changes, max_loop, index_update_balance, index_address_changes,
                        balance_update_db, address_update_db,
                        dividends_score, blacklist_address,
                        staked_balances, minimum_stake, unstaking_period, total_staked_balance,
                        stake_changes, stake_update_db, index_stake_changes,
                        staking_enabled,
                        paused, pause_whitelist, locklist, now>>

togglePaused(sender) ==
    IF ~_owner_only(sender)
    THEN Revert("togglePaused")
    ELSE /\ paused' = ~paused
         /\ Ok("togglePaused")
         /\ UNCHANGED <<total_supply, decimals, addresses, balances,
                        changes, max_loop, index_update_balance, index_address_changes,
                        balance_update_db, address_update_db,
                        dividends_score, blacklist_address,
                        staked_balances, minimum_stake, unstaking_period, total_staked_balance,
                        stake_changes, stake_update_db, index_stake_changes,
                        staking_enabled, switch_divs_to_staked_tap_enabled,
                        pause_whitelist, locklist, now>>

set_minimum_stake(sender, _amount) ==
    IF ~_owner_only(sender) \/ _amount < 0
    THEN Revert("set_minimum_stake")
    ELSE /\ minimum_stake' = _amount * Pow10(decimals)
         /\ Ok("set_minimum_stake")
         /\ UNCHANGED <<total_supply, decimals, addresses, balances,
                        changes, max_loop, index_update_balance, index_address_changes,
                        balance_update_db, address_update_db,
                        dividends_score, blacklist_address,
                        staked_balances, unstaking_period, total_staked_balance,
                        stake_changes, stake_update_db, index_stake_changes,
                        staking_enabled, switch_divs_to_staked_tap_enabled,
                        paused, pause_whitelist, locklist, now>>

set_unstaking_period(sender, _time) ==
    IF ~_owner_only(sender) \/ _time < 0
    THEN Revert("set_unstaking_period")
    ELSE /\ unstaking_period' = _time * DAY_TO_MICROSECOND
         /\ Ok("set_unstaking_period")
         /\ UNCHANGED <<total_supply, decimals, addresses, balances,
                        changes, max_loop, index_update_balance, index_address_changes,
                        balance_update_db, address_update_db,
                        dividends_score, blacklist_address,
                        staked_balances, minimum_stake, total_staked_balance,
                        stake_changes, stake_update_db, index_stake_changes,
                        staking_enabled, switch_divs_to_staked_tap_enabled,
                        paused, pause_whitelist, locklist, now>>

set_max_loop(sender, _loops) ==
    IF ~_owner_only(sender)
    THEN Revert("set_max_loop")
    ELSE /\ max_loop' = _loops
         /\ Ok("set_max_loop")
         /\ UNCHANGED <<total_supply, decimals, addresses, balances,
                        changes, index_update_balance, index_address_changes,
                        balance_update_db, address_update_db,
                        dividends_score, blacklist_address,
                        staked_balances, minimum_stake, unstaking_period, total_staked_balance,
                        stake_changes, stake_update_db, index_stake_changes,
                        staking_enabled, switch_divs_to_staked_tap_enabled,
                        paused, pause_whitelist, locklist, now>>

set_dividends_score(sender, _score) ==
    IF ~_owner_only(sender)
    THEN Revert("set_dividends_score")
    ELSE /\ dividends_score' = _score
         /\ Ok("set_dividends_score")
         /\ UNCHANGED <<total_supply, decimals, addresses, balances,
                        changes, max_loop, index_update_balance, index_address_changes,
                        balance_update_db, address_update_db,
                        blacklist_address,
                        staked_balances, minimum_stake, unstaking_period, total_staked_balance,
                        stake_changes, stake_update_db, index_stake_changes,
                        staking_enabled, switch_divs_to_staked_tap_enabled,
                        paused, pause_whitelist, locklist, now>>

\* -------------------------------------------------------- membership lists
\* A caller other than the owner falls through the `if`: the call commits
\* and changes nothing.
remove_from_blacklist(sender, _address) ==
    IF sender = owner /\ ~Contains(blacklist_address, _address)
    THEN Revert("remove_from_blacklist")
    ELSE /\ blacklist_address' = IF sender = owner
                                 THEN SwapRemove(blacklist_address, _address)
                                 ELSE blacklist_address
         /\ Ok("remove_from_blacklist")
         /\ UNCHANGED <<total_supply, decimals, addresses, balances,
                        changes, max_loop, index_update_balance, index_address_changes,
                        balance_update_db, address_update_db,
                        dividends_score,
                        staked_balances, minimum_stake, unstaking_period, total_staked_balance,
                        stake_changes, stake_update_db, index_stake_changes,
                        staking_enabled, switch_divs_to_staked_tap_enabled,
                        paused, pause_whitelist, locklist, now>>

set_blacklist_address(sender, _address) ==
    /\ blacklist_address' = IF sender = owner /\ ~Contains(blacklist_address, _address)
                            THEN Put(blacklist_address, _address)
                            ELSE blacklist_address
    /\ Ok("set_blacklist_address")
    /\ UNCHANGED <<total_supply, decimals, addresses, balances,
                   changes, max_loop, index_update_balance, index_address_changes,
                   balance_update_db, address_update_db,
                   dividends_score,
                   staked_balances, minimum_stake, unstaking_period, total_staked_balance,
                   stake_changes, stake_update_db, index_stake_changes,
                   staking_enabled, switch_divs_to_staked_tap_enabled,
                   paused, pause_whitelist, locklist, now>>

remove_from_whitelist(sender, _address) ==
    IF ~_owner_only(sender) \/ ~Contains(pause_whitelist, _address)
    THEN Revert("remove_from_whitelist")
    ELSE /\ pause_whitelist' = SwapRemove(pause_whitelist, _address)
         /\ Ok("remove_from_whitelist")
         /\ UNCHANGED <<total_supply, decimals, addresses, balances,
                        changes, max_loop, index_update_balance, index_address_changes,
                        balance_update_db, address_update_db,
                        dividends_score, blacklist_address,
                        staked_balances, minimum_stake, unstaking_period, total_staked_balance,
                        stake_changes, stake_update_db, index_stake_changes,
                        staking_enabled, switch_divs_to_staked_tap_enabled,
                        paused, locklist, now>>

set_whitelist_address(sender, _address) ==
    IF ~_owner_only(sender)
    THEN Revert("set_whitelist_address")
    ELSE /\ pause_whitelist' = IF ~Contains(pause_whitelist, _address)
                               THEN Put(pause_whitelist, _address)
                               ELSE pause_whitelist
         /\ Ok("set_whitelist_address")
         /\ UNCHANGED <<total_supply, decimals, addresses, balances,
                        changes, max_loop, index_update_balance, index_address_changes,
                        balance_update_db, address_update_db,
                        dividends_score, blacklist_address,
                        staked_balances, minimum_stake, unstaking_period, total_staked_balance,
                        stake_changes, stake_update_db, index_stake_changes,
                        staking_enabled, switch_divs_to_staked_tap_enabled,
                        paused, locklist, now>>

remove_from_locklist(sender, _address) ==
    IF ~_owner_only(sender) \/ ~Contains(locklist, _address)
    THEN Revert("remove_from_locklist")
    ELSE /\ locklist' = SwapRemove(locklist, _address)
         /\ Ok("remove_from_locklist")
         /\ UNCHANGED <<total_supply, decimals, addresses, balances,
                        changes, max_loop, index_update_balance, index_address_changes,
                        balance_update_db, address_update_db,
                        dividends_score, blacklist_address,
                        staked_balances, minimum_stake, unstaking_period, total_staked_balance,
                        stake_changes, stake_update_db, index_stake_changes,
                        staking_enabled, switch_divs_to_staked_tap_enabled,
                        paused, pause_whitelist, now>>

\* forced unstake that does not settle matured unstaking first
ForcedUnstake_unsettled(sb, _address) ==
    LET staked_balance == sb[_address][STAKED]
    IN IF staked_balance > 0
       THEN [sb EXCEPT ![_address] = [s \in 0..3 |->
                CASE s = AVAILABLE -> sb[_address][AVAILABLE]
                  [] s = STAKED -> 0
                  [] s = UNSTAKING -> sb[_address][UNSTAKING] + staked_balance
                  [] OTHER -> now + unstaking_period]]
       ELSE sb

\* lines 684-691: Unstake TAP of locklist address
ForcedUnstake(sb, _address) ==
    LET staked_balance == sb[_address][STAKED]
        sb1 == _makeAvailable(sb, _address)
    IN IF staked_balance > 0
       THEN [sb1 EXCEPT ![_address] = [s \in 0..3 |->
                CASE s = AVAILABLE -> sb1[_address][AVAILABLE]
                  [] s = STAKED -> 0
                  [] s = UNSTAKING -> sb1[_address][UNSTAKING] + staked_balance
                  [] OTHER -> now + unstaking_period]]
       ELSE sb

\* locklisting that leaves the stake of the address in place
set_locklist_address_keeps_stake(sender, _address) ==
    IF ~_owner_only(sender) \/ ~staking_enabled
    THEN Revert("set_locklist_address")
    ELSE /\ locklist' = IF ~Contains(locklist, _address)
                        THEN Put(locklist, _address)
                        ELSE locklist
         /\ Ok("set_locklist_address")
         /\ UNCHANGED <<total_supply, decimals, addresses, balances,
                        changes, max_loop, index_update_balance, index_address_changes,
                        balance_update_db, address_update_db,
                        dividends_score, blacklist_address,
                        staked_balances, minimum_stake, unstaking_period,
                        total_staked_balance,
                        stake_changes, stake_update_db, index_stake_changes,
                        staking_enabled, switch_divs_to_staked_tap_enabled,
                        paused, pause_whitelist, now>>

set_locklist_address(sender, _address) ==
    LET staked_balance == staked_balances[_address][STAKED]
    IN IF ~_owner_only(sender) \/ ~staking_enabled
       THEN Revert("set_locklist_address")
       ELSE /\ locklist' = IF ~Contains(locklist, _address)
                           THEN Put(locklist, _address)
                           ELSE locklist
            /\ staked_balances' = ForcedUnstake(staked_balances, _address)
            /\ total_staked_balance' = IF staked_balance > 0
                                       THEN total_staked_balance - staked_balance
                                       ELSE total_staked_balance
            /\ stake_changes' = IF staked_balance > 0
                                THEN RecordStake(stake_changes, stake_update_db, _address)
                                ELSE stake_changes
            /\ Ok("set_locklist_address")
            /\ UNCHANGED <<total_supply, decimals, addresses, balances,
                           changes, max_loop, index_update_balance, index_address_changes,
                           balance_update_db, address_update_db,
                           dividends_score, blacklist_address,
                           minimum_stake, unstaking_period,
                           stake_update_db, index_stake_changes,
                           staking_enabled, switch_divs_to_staked_tap_enabled,
                           paused, pause_whitelist, now>>


\* -------------------------------------------------------------- reentrancy
\* _transfer to a contract whose tokenFallback re-enters the token and calls
\* switch_address_update_db before it returns (the call passes
\* _dividends_only when the recipient is the dividends SCORE, and raises
\* otherwise).  Lines 358-366 run before the hook, the nested flip is lines
\* 575-578, and lines 374-380 run after the hook has returned.
_transfer_hook_flips(_from, _to, _value) ==
    LET new_day == (address_update_db + 1) % 2
    IN IF ~TransferValueOk(_from, _to, _value) \/ ~_dividends_only(_to)
       THEN Revert("transfer")
       ELSE /\ balances' = TransferBalances(balances, _from, _to, _value)
            /\ staked_balances' =
                   TransferAvailable(TransferSettle(staked_balances, _from, _to), _from, _to, _value)
            /\ addresses' = IF ~Contains(addresses, _to) THEN Put(addresses, _to) ELSE addresses
            /\ address_update_db' = new_day
            /\ index_address_changes' = Len(changes[new_day])
            /\ changes' = IF ~switch_divs_to_staked_tap_enabled
                          THEN RecordTransfer(changes, new_day, _from, _to)
                          ELSE changes
            /\ result' = Result("transfer", TRUE, <<>>, FALSE)
            /\ hist' = HistFlip
            /\ UNCHANGED <<total_supply, decimals,
                           max_loop, index_update_balance, balance_update_db,
                           dividends_score, blacklist_address,
                           minimum_stake, unstaking_period, total_staked_balance,
                           stake_changes, stake_update_db, index_stake_changes,
                           staking_enabled, switch_divs_to_staked_tap_enabled,
                           paused, pause_whitelist, locklist, now>>

transfer_hook_flips(sender, _to, _value) ==
    /\ is_contract(_to)
    /\ IF ~TransferAllowed(sender)
       THEN Revert("transfer")
       ELSE _transfer_hook_flips(sender, _to, _value)

\* ------------------------------------------------- balance change tracking
\* range(start, end)
Range(start, end) == start..(end - 1)

\* The keys of the dictionary a drain returns, in insertion order: the
\* dictionary is keyed by address, so an address read twice is one key.
RECURSIVE DictKeys(_)
DictKeys(s) ==
    IF s = <<>> THEN <<>>
    ELSE LET front == DictKeys(Pop(s))
         IN IF Contains(front, s[Len(s)]) THEN front ELSE Append(front, s[Len(s)])

\* a page that starts one entry after the cursor
Slice_skip_first(s, start, end) ==
    [k \in 1..(IF end > start + 1 THEN end - start - 1 ELSE 0) |-> ArrayGet(s, start + k)]

\* [array[i] for i in range(start, end)]
Slice(s, start, end) ==
    [k \in 1..(IF end > start THEN end - start ELSE 0) |-> ArrayGet(s, start + k - 1)]

\* end = min(start + max_loop, length_list)
PageEnd(start, length_list) == Min(start + max_loop, length_list)

get_balance_updates(sender) ==
    LET balance_changes == changes[balance_update_db]
        length_list == Len(balance_changes)
        start == index_update_balance
        end == PageEnd(start, length_list)
    IN IF ~_dividends_only(sender)
       THEN Revert("get_balance_updates")
       ELSE IF start = length_list
       THEN /\ IF balance_update_db # address_update_db
               THEN /\ balance_update_db' = address_update_db
                    /\ index_update_balance' = index_address_changes
               ELSE UNCHANGED <<balance_update_db, index_update_balance>>
            /\ result' = Result("get_balance_updates", TRUE, <<>>, FALSE)
            /\ hist' = HistReturn(IF balance_update_db # address_update_db
                                  THEN HistAdvance(hist) ELSE hist, <<>>)
            /\ UNCHANGED <<total_supply, decimals, addresses, balances,
                           changes, max_loop, index_address_changes, address_update_db,
                           dividends_score, blacklist_address,
                           staked_balances, minimum_stake, unstaking_period,
                           total_staked_balance,
                           stake_changes, stake_update_db, index_stake_changes,
                           staking_enabled, switch_divs_to_staked_tap_enabled,
                           paused, pause_whitelist, locklist, now>>
       ELSE IF \E i \in Range(start, end) : ~InRange(balance_changes, i)
       THEN Revert("get_balance_updates")
       ELSE /\ index_update_balance' = end
            /\ result' = Result("get_balance_updates", TRUE,
                                DictKeys(Slice(balance_changes, start, end)), FALSE)
            /\ hist' = HistReturn(
                           HistDeliver(hist, Slice(balance_changes, start, end), start, end),
                           DictKeys(Slice(balance_changes, start, end)))
            /\ UNCHANGED <<total_supply, decimals, addresses, balances,
                           changes, max_loop, index_address_changes,
                           balance_update_db, address_update_db,
                           dividends_score, blacklist_address,
                           staked_balances, minimum_stake, unstaking_period,
                           total_staked_balance,
                           stake_changes, stake_update_db, index_stake_changes,
                           staking_enabled, switch_divs_to_staked_tap_enabled,
                           paused, pause_whitelist, locklist, now>>

\* loop_count pops from the tail; range(loop_count) is empty when negative
PopMany(s, loop_count) ==
    IF loop_count > 0 THEN SubSeq(s, 1, Len(s) - loop_count) ELSE s

\* a clear that empties the buffer in one call, whatever max_loop is
ClearCount_unbounded(length_list) == length_list

\* loop_count = min(length_list, self._max_loop.get())
ClearCount(length_list) == Min(length_list, max_loop)

clear_yesterdays_changes(sender) ==
    LET yesterday == (address_update_db + 1) % 2
        yesterdays_changes == changes[yesterday]
        length_list == Len(yesterdays_changes)
        cleared == PopMany(yesterdays_changes, ClearCount(length_list))
    IN IF ~_dividends_only(sender)
       THEN Revert("clear_yesterdays_changes")
       ELSE /\ changes' = IF length_list = 0 THEN changes
                          ELSE [changes EXCEPT ![yesterday] = cleared]
            /\ result' = Result("clear_yesterdays_changes", TRUE, <<>>,
                                length_list = 0 \/ ~(Len(cleared) > 0))
            /\ hist' = IF Len(cleared) < length_list THEN HistPop(hist) ELSE hist
            /\ UNCHANGED <<total_supply, decimals, addresses, balances,
                           max_loop, index_update_balance, index_address_changes,
                           balance_update_db, address_update_db,
                           dividends_score, blacklist_address,
                           staked_balances, minimum_stake, unstaking_period,
                           total_staked_balance,
                           stake_changes, stake_update_db, index_stake_changes,
                           staking_enabled, switch_divs_to_staked_tap_enabled,
                           paused, pause_whitelist, locklist, now>>

\* a flip that takes the offset from the buffer it leaves
switch_address_update_db_previous_length(sender) ==
    LET new_day == (address_update_db + 1) % 2
    IN IF ~_dividends_only(sender)
       THEN Revert("switch_address_update_db")
       ELSE /\ address_update_db' = new_day
            /\ index_address_changes' = Len(changes[address_update_db])
            /\ result' = Result("switch_address_update_db", TRUE, <<>>, FALSE)
            /\ hist' = HistFlip
            /\ UNCHANGED <<total_supply, decimals, addresses, balances,
                           changes, max_loop, index_update_balance, balance_update_db,
                           dividends_score, blacklist_address,
                           staked_balances, minimum_stake, unstaking_period,
                           total_staked_balance,
                           stake_changes, stake_update_db, index_stake_changes,
                           staking_enabled, switch_divs_to_staked_tap_enabled,
                           paused, pause_whitelist, locklist, now>>

switch_address_update_db(sender) ==
    LET new_day == (address_update_db + 1) % 2
    IN IF ~_dividends_only(sender)
       THEN Revert("switch_address_update_db")
       ELSE /\ address_update_db' = new_day
            /\ index_address_changes' = Len(changes[new_day])
            /\ result' = Result("switch_address_update_db", TRUE, <<>>, FALSE)
            /\ hist' = HistFlip
            /\ UNCHANGED <<total_supply, decimals, addresses, balances,
                           changes, max_loop, index_update_balance, balance_update_db,
                           dividends_score, blacklist_address,
                           staked_balances, minimum_stake, unstaking_period,
                           total_staked_balance,
                           stake_changes, stake_update_db, index_stake_changes,
                           staking_enabled, switch_divs_to_staked_tap_enabled,
                           paused, pause_whitelist, locklist, now>>

\* --------------------------------------------------- stake change tracking
StakeTrackingAllowed(sender) ==
    /\ _dividends_only(sender)
    /\ staking_enabled
    /\ switch_divs_to_staked_tap_enabled

get_stake_updates(sender) ==
    LET changes_ == stake_changes[stake_update_db]
        length_list == Len(changes_)
        start == index_stake_changes
        end == PageEnd(start, length_list)
    IN IF ~StakeTrackingAllowed(sender)
       THEN Revert("get_stake_updates")
       ELSE IF start = length_list
       THEN /\ result' = Result("get_stake_updates", TRUE, <<>>, FALSE)
            /\ hist' = HistStakeReturn(hist, <<>>)
            /\ UNCHANGED <<ledger, now>>
       ELSE IF \E i \in Range(start, end) : ~InRange(changes_, i)
       THEN Revert("get_stake_updates")
       ELSE /\ index_stake_changes' = end
            /\ result' = Result("get_stake_updates", TRUE,
                                DictKeys(Slice(changes_, start, end)), FALSE)
            /\ hist' = HistStakeReturn(hist, DictKeys(Slice(changes_, start, end)))
            /\ UNCHANGED <<total_supply, decimals, addresses, balances,
                           changes, max_loop, index_update_balance, index_address_changes,
                           balance_update_db, address_update_db,
                           dividends_score, blacklist_address,
                           staked_balances, minimum_stake, unstaking_period,
                           total_staked_balance,
                           stake_changes, stake_update_db,
                           staking_enabled, switch_divs_to_staked_tap_enabled,
                           paused, pause_whitelist, locklist, now>>

switch_stake_update_db(sender) ==
    LET new_day == (stake_update_db + 1) % 2
    IN IF ~StakeTrackingAllowed(sender)
       THEN Revert("switch_stake_update_db")
       ELSE /\ stake_update_db' = new_day
            /\ index_stake_changes' = Len(stake_changes[new_day])
            /\ result' = Result("switch_stake_update_db", TRUE, <<>>, FALSE)
            /\ hist' = HistStakeFlip(hist)
            /\ UNCHANGED <<total_supply, decimals, addresses, balances,
                           changes, max_loop, index_update_balance, index_address_changes,
                           balance_update_db, address_update_db,
                           dividends_score, blacklist_address,
                           staked_balances, minimum_stake, unstaking_period,
                           total_staked_balance,
                           stake_changes,
                           staking_enabled, switch_divs_to_staked_tap_enabled,
                           paused, pause_whitelist, locklist, now>>

clear_yesterdays_stake_changes(sender) ==
    LET yesterday == (stake_update_db + 1) % 2
        yesterdays_changes == stake_changes[yesterday]
        length_list == Len(yesterdays_changes)
        cleared == PopMany(yesterdays_changes, ClearCount(length_list))
    IN IF ~StakeTrackingAllowed(sender)
       THEN Revert("clear_yesterdays_stake_changes")
       ELSE /\ stake_changes' = IF length_list = 0 THEN stake_changes
                                ELSE [stake_changes EXCEPT ![yesterday] = cleared]
            /\ result' = Result("clear_yesterdays_stake_changes", TRUE, <<>>,
                                length_list = 0 \/ ~(Len(cleared) > 0))
            /\ UNCHANGED hist
            /\ UNCHANGED <<total_supply, decimals, addresses, balances,
                           changes, max_loop, index_update_balance, index_address_changes,
                           balance_update_db, address_update_db,
                           dividends_score, blacklist_address,
                           staked_balances, minimum_stake, unstaking_period,
                           total_staked_balance,
                           stake_update_db, index_stake_changes,
                           staking_enabled, switch_divs_to_staked_tap_enabled,
                           paused, pause_whitelist, locklist, now>>

\* -------------------------------------------------------------------- time
\* self.now(): the block timestamp, which grows from block to block.
Tick ==
    /\ now < (1 + MaxNow) * DAY_TO_MICROSECOND
    /\ now' = now + DAY_TO_MICROSECOND
    /\ result' = Result("now", TRUE, <<>>, FALSE)
    /\ UNCHANGED <<ledger, hist>>

\* ---------------------------------------------------------- specifications
Values == -1..MaxSupply

\* Staking: two stakers, the owner's staking configuration (a minimum stake
\* of the whole supply, an unstaking period of one day), the locklist and
\* the clock; transfers move funds between the stakers.
StakeNext ==
    \/ \E s \in {"owner", "user"}, v \in Values : stake(s, v)
    \/ \E s \in {"owner", "user"}, t \in {"owner", "user"}, v \in 0..MaxSupply :
          transfer(s, t, v, TRUE)
    \/ toggle_staking_enabled(owner)
    \/ set_minimum_stake(owner, MaxSupply)
    \/ set_unstaking_period(owner, 1)
    \/ set_locklist_address(owner, "user")
    \/ remove_from_locklist(owner, "user")
    \/ Tick

SpecStake == InitStakedDivs /\ [][StakeNext]_vars


\* Transfers: every sender and recipient, the pause switch and its
\* whitelist, the locklist, and a staker whose funds are staked, unstaking
\* or matured.
TransferNext ==
    \/ \E s \in Addr, t \in Addr, v \in Values, h \in BOOLEAN :
          /\ is_contract(t) \/ h
          /\ transfer(s, t, v, h)
    \/ togglePaused(owner)
    \/ set_whitelist_address(owner, "user")
    \/ remove_from_whitelist(owner, "user")
    \/ toggle_staking_enabled(owner)
    \/ \E v \in 0..MaxSupply : stake("user", v)
    \/ \E d \in 0..1 : set_unstaking_period(owner, d)
    \/ set_locklist_address(owner, "user")
    \/ remove_from_locklist(owner, "user")
    \/ Tick

SpecTransfer == InitStakedDivs /\ [][TransferNext]_vars

\* The ledger: transfers between all accounts interleaved with staking, the
\* locklist, the clock and the dividends SCORE's flip, drain and clear.
LedgerNext ==
    \/ \E s \in Addr, t \in Addr, v \in 0..MaxSupply : transfer(s, t, v, TRUE)
    \/ toggle_staking_enabled(owner)
    \/ \E v \in 0..MaxSupply : stake("owner", v)
    \/ set_locklist_address(owner, "owner")
    \/ remove_from_locklist(owner, "owner")
    \/ set_dividends_score(owner, "score")
    \/ get_balance_updates("score")
    \/ clear_yesterdays_changes("score")
    \/ switch_address_update_db("score")
    \/ Tick

SpecLedger == InitStakedDivs /\ [][LedgerNext]_vars

\* Recording: transfers to the user, by the owner and by the user itself,
\* and back to the owner, with the user blacklisted or not,
\* dividends-on-staked-only mode switched on and off, the owner staking, and
\* the day flipped.  A transfer that would be recorded is explored while
\* the two balance-change buffers together hold fewer than MaxBuf entries.
RecordRoom ==
    switch_divs_to_staked_tap_enabled \/ Len(changes[0]) + Len(changes[1]) < MaxBuf

RecordNext ==
    \/ \E s \in {"owner", "user"}, v \in 0..1 :
          RecordRoom /\ transfer(s, "user", v, TRUE)
    \/ RecordRoom /\ transfer("user", "owner", 0, TRUE)
    \/ set_blacklist_address(owner, "user")
    \/ toggle_switch_divs_to_staked_tap_enabled(owner)
    \/ toggle_staking_enabled(owner)
    \/ stake("owner", 1)
    \/ set_unstaking_period(owner, 1)
    \/ set_dividends_score(owner, "score")
    \/ switch_address_update_db("score")

SpecRecord == Init /\ [][RecordNext]_vars

\* Tracking of the balance dimension: the dividends SCORE flips the day,
\* drains and clears in any order, for every page size, while transfers are
\* recorded as long as both entries fit in MaxBuf entries of today's
\* buffer.  A drain is explored while its cursor is not negative.
TrackNext ==
    \/ \E s \in {"owner", "user"} :
          /\ Len(changes[address_update_db]) + 2 <= MaxBuf
          /\ transfer(s, "user", 0, TRUE)
    \/ set_dividends_score(owner, "score")
    \/ \E n \in {-1, 1, 2} : set_max_loop(owner, n)
    \/ index_update_balance >= 0 /\ get_balance_updates("score")
    \/ clear_yesterdays_changes("score")
    \/ switch_address_update_db("score")

SpecTrack == Init /\ [][TrackNext]_vars

\* Reentrancy: transfers to the contract "score", whose hook either just
\* returns or flips the day before returning; "score" is registered as the
\* dividends SCORE by the owner and also flips the day by itself.
HookNext ==
    \/ \E s \in {"owner", "user"}, v \in 0..1 :
          RecordRoom /\ transfer(s, "score", v, TRUE)
    \/ \E s \in {"owner", "user"}, v \in 0..1 :
          RecordRoom /\ transfer_hook_flips(s, "score", v)
    \/ RecordRoom /\ transfer("owner", "user", 1, TRUE)
    \/ set_dividends_score(owner, "score")
    \/ set_blacklist_address(owner, "score")
    \/ toggle_switch_divs_to_staked_tap_enabled(owner)
    \/ switch_address_update_db("score")

SpecHook == Init /\ [][HookNext]_vars

\* Tracking of the stake dimension, dividends paid on staked TAP: stakes are
\* recorded while today's stake buffer holds fewer than MaxBuf entries, the
\* dividends SCORE flips the day, drains and clears in any order, for every
\* page size.  A drain is explored while its cursor is not negative.
StakeTrackNext ==
    \/ \E s \in {"owner", "user"} :
          /\ Len(stake_changes[stake_update_db]) < MaxBuf
          /\ stake(s, 0)
    \/ set_dividends_score(owner, "score")
    \/ toggle_staking_enabled(owner)
    \/ \E n \in {-1, 0, 1, 2} : set_max_loop(owner, n)
    \/ index_stake_changes >= 0 /\ get_stake_updates("score")
    \/ clear_yesterdays_stake_changes("score")
    \/ switch_stake_update_db("score")

SpecStakeTrack == InitStakedDivs /\ [][StakeTrackNext]_vars

\* Clearing in both dimensions: the owner switches between dividends on
\* balances and on staked TAP, transfers and stakes are recorded while today's
\* buffer has room, and the dividends SCORE flips and clears in any order.
ClearNext ==
    \/ /\ Len(changes[address_update_db]) + 2 <= MaxBuf
       /\ transfer("owner", "user", 0, TRUE)
    \/ /\ Len(stake_changes[stake_update_db]) < MaxBuf
       /\ stake("owner", 0)
    \/ set_dividends_score(owner, "score")
    \/ toggle_switch_divs_to_staked_tap_enabled(owner)
    \/ toggle_staking_enabled(owner)
    \/ \E n \in {-1, 1} : set_max_loop(owner, n)
    \/ clear_yesterdays_changes("score")
    \/ switch_address_update_db("score")
    \/ clear_yesterdays_stake_changes("score")
    \/ switch_stake_update_db("score")

SpecClear == Init /\ [][ClearNext]_vars

\* Authorization: every address calls every configuration setter and every
\* drain, clear and flip operation.
ConfigurationSetter(sender) ==
    \/ set_minimum_stake(sender, 1)
    \/ set_unstaking_period(sender, 1)
    \/ set_max_loop(sender, 1)
    \/ set_locklist_address(sender, "user")
    \/ remove_from_locklist(sender, "user")
    \/ set_blacklist_address(sender, "user")
    \/ remove_from_blacklist(sender, "user")
    \/ set_whitelist_address(sender, "user")
    \/ remove_from_whitelist(sender, "user")
    \/ set_dividends_score(sender, "score")
    \/ toggle_staking_enabled(sender)
    \/ togglePaused(sender)

TrackingOperation(sender) ==
    \/ get_balance_updates(sender)
    \/ clear_yesterdays_changes(sender)
    \/ switch_address_update_db(sender)
    \/ get_stake_updates(sender)
    \/ clear_yesterdays_stake_changes(sender)
    \/ switch_stake_update_db(sender)

AuthNext ==
    \/ \E sender \in Addr : ConfigurationSetter(sender)
    \/ \E sender \in Addr : TrackingOperation(sender)
    \/ toggle_switch_divs_to_staked_tap_enabled(owner)

SpecAuth == Init /\ [][AuthNext]_vars

\* ------------------------------------------------------------------- views
balanceOf(_owner) == balances[_owner]

staked_balanceOf(_owner) == staked_balances[_owner][STAKED]

\* the dictionary of details_balanceOf, one field per key
details_balanceOf(_owner) ==
    LET curr_unstaked == IF staked_balances[_owner][UNSTAKING_PERIOD] < now
                         THEN staked_balances[_owner][UNSTAKING]
                         ELSE 0
        available_balance == IF _first_time(staked_balances, _owner)
                             THEN balanceOf(_owner)
                             ELSE staked_balances[_owner][AVAILABLE]
        unstaking_amount == staked_balances[_owner][UNSTAKING] - curr_unstaked
        unstaking_time == IF unstaking_amount = 0 THEN 0
                          ELSE staked_balances[_owner][UNSTAKING_PERIOD]
    IN [total_balance |-> balances[_owner],
        available_balance |-> available_balance + curr_unstaked,
        staked_balance |-> staked_balances[_owner][STAKED],
        unstaking_balance |-> unstaking_amount,
        unstaking_time |-> unstaking_time]

available_balanceOf(_owner) == details_balanceOf(_owner).available_balance

unstaked_balanceOf(_owner) == details_balanceOf(_owner).unstaking_balance

\* ------------------------------------------------------------ the claims
\* Vocabulary of the specification document, stated on the state alone.
Max(a, b) == IF a > b THEN a ELSE b

RECURSIVE Sum(_, _)
Sum(f, S) == IF S = {} THEN 0
             ELSE LET x == CHOOSE y \in S : TRUE IN f[x] + Sum(f, S \ {x})

Available(a) == staked_balances[a][AVAILABLE]
Staked(a) == staked_balances[a][STAKED]
Unstaking(a) == staked_balances[a][UNSTAKING]
UnlockTime(a) == staked_balances[a][UNSTAKING_PERIOD]

\* "unmigrated": available == staked == unstaking == 0 with total_balance != 0
Unmigrated(a) ==
    Available(a) = 0 /\ Staked(a) = 0 /\ Unstaking(a) = 0 /\ balances[a] # 0

\* unstaking has matured: now >= unlock time
Matured(a) == now >= UnlockTime(a)

\* available and unstaking after first-touch migration and settle_unstaking
SettledAvailable(a) ==
    (IF Unmigrated(a) THEN balances[a] ELSE Available(a))
    + (IF Matured(a) THEN Unstaking(a) ELSE 0)

SettledUnstaking(a) == IF Matured(a) THEN 0 ELSE Unstaking(a)

\* C1. Balance conservation: in every reachable state the total balances of
\* all accounts add up to total_supply.
C1_BalanceConservation == Sum(balances, Addr) = total_supply

\* After a flip of the day, transfers have moved funds from the owner to
\* both other accounts.
C1_Witness ==
    /\ result.op = "transfer" /\ result.ok
    /\ balances["user"] > 0 /\ balances["score"] > 0
    /\ address_update_db = 1

\* C2. Staking reconciliation: every account that is not unmigrated has
\* available + staked + unstaking == total_balance.
C2_StakingReconciliation ==
    \A a \in Addr :
        ~Unmigrated(a) => Available(a) + Staked(a) + Unstaking(a) = balances[a]

\* A transfer has committed for an account holding staked, unstaking and
\* available funds at once.
C2_Witness ==
    /\ result.op = "transfer" /\ result.ok
    /\ \E a \in Addr : Staked(a) > 0 /\ Unstaking(a) > 0

\* C3. Non-negativity: balances and the four staking amounts are never
\* negative, staked never exceeds the total balance, and the total-staked
\* counter is never negative.
C3_NonNegative ==
    /\ \A a \in Addr :
        /\ balances[a] >= 0
        /\ Available(a) >= 0
        /\ Staked(a) >= 0
        /\ Unstaking(a) >= 0
        /\ Staked(a) <= balances[a]
    /\ total_staked_balance >= 0

\* A stake increase has consumed the whole available amount of an account.
C3_Witness ==
    /\ result.op = "stake" /\ result.ok
    /\ \E a \in Addr : Staked(a) = MaxSupply /\ Available(a) = 0 /\ balances[a] = MaxSupply

\* C4. Transfer enabling condition: a transfer whose recipient hook does not
\* abort commits if and only if (not paused or sender whitelisted), sender
\* not locklisted, 0 <= value <= total_balance(sender) and value <= the
\* sender's available amount after migration and settlement.
TransferEnabled(s, v) ==
    /\ ~paused \/ Contains(pause_whitelist, s)
    /\ ~Contains(locklist, s)
    /\ 0 <= v /\ v <= balances[s]
    /\ v <= SettledAvailable(s)

\* transfer(to, value) by s would commit in this state
TransferCommits(s, t, v) == ENABLED (transfer(s, t, v, TRUE) /\ result'.ok)

C4_TransferEnabling ==
    \A s \in Addr, t \in Addr, v \in Values :
        TransferCommits(s, t, v) <=> TransferEnabled(s, v)

\* A transfer was rejected although the ledger is not paused and nobody is
\* locklisted: the sender's funds are staked or still unstaking.
C4_Witness ==
    /\ result.op = "transfer" /\ ~result.ok
    /\ ~paused /\ locklist = <<>>
    /\ Staked("user") > 0 /\ Unstaking("user") > 0 /\ ~Matured("user")

\* C5. Transfer postcondition: a successful transfer of v from f to t lowers
\* total_balance(f) and available(f) by v and raises total_balance(t) and
\* available(t) by v (net zero when f = t), apart from migration and
\* settlement of matured unstaking of f and t; every other account, every
\* staked amount, the total-staked counter, both stake-change buffers, all
\* cursors and both selectors are unchanged; f and t, each only if not
\* blacklisted, are appended to the active balance-change buffer, unless
\* dividends-on-staked-only mode is on: then both buffers are unchanged.
Delta(a, f, t, v) == (IF a = t THEN v ELSE 0) - (IF a = f THEN v ELSE 0)

Recorded(a) == IF Contains(blacklist_address, a) THEN <<>> ELSE <<a>>

TransferPost(f, t, v) ==
    /\ \A a \in Addr : balances'[a] = balances[a] + Delta(a, f, t, v)
    /\ \A a \in {f, t} :
        /\ staked_balances'[a][AVAILABLE] = SettledAvailable(a) + Delta(a, f, t, v)
        /\ staked_balances'[a][UNSTAKING] = SettledUnstaking(a)
        /\ staked_balances'[a][UNSTAKING_PERIOD] = UnlockTime(a)
    /\ \A a \in Addr \ {f, t} : staked_balances'[a] = staked_balances[a]
    /\ \A a \in Addr : staked_balances'[a][STAKED] = Staked(a)
    /\ UNCHANGED <<total_supply, total_staked_balance, stake_changes,
                   index_update_balance, index_address_changes, index_stake_changes,
                   balance_update_db, address_update_db, stake_update_db>>
    /\ changes' = IF switch_divs_to_staked_tap_enabled
                  THEN changes
                  ELSE [changes EXCEPT ![address_update_db] = @ \o Recorded(f) \o Recorded(t)]

C5_TransferPostcondition ==
    [][(result'.op = "transfer" /\ result'.ok) =>
         \A f \in {"owner", "user"}, t \in {"owner", "user"}, v \in 0..1 :
             transfer(f, t, v, TRUE) => TransferPost(f, t, v)]_vars

\* After a flip, a transfer with the blacklisted user on one side has put
\* only the other party on the odd-day buffer, and the owner has a stake.
C5_Witness ==
    /\ result.op = "transfer" /\ result.ok
    /\ ~switch_divs_to_staked_tap_enabled
    /\ address_update_db = 1 /\ Len(changes[1]) = 1
    /\ Contains(blacklist_address, "user")
    /\ Staked("owner") > 0

\* C6. Stake transition: stake(value) by a sets staked = value, unstaking =
\* max(old_target - value, 0), lowers available by max(value - old_target, 0),
\* sets the unlock time to now + unstaking_period, keeps total_balance, and a
\* is in the active stake-change buffer; old_target = staked + unstaking after
\* migration and settlement.
StakePost(a, v) ==
    LET old_target == Staked(a) + SettledUnstaking(a)
    IN /\ staked_balances'[a][STAKED] = v
       /\ staked_balances'[a][UNSTAKING] = Max(old_target - v, 0)
       /\ staked_balances'[a][AVAILABLE] = SettledAvailable(a) - Max(v - old_target, 0)
       /\ staked_balances'[a][UNSTAKING_PERIOD] = now + unstaking_period
       /\ balances' = balances
       /\ Contains(stake_changes'[stake_update_db'], a)

C6_StakeTransition ==
    [][(result'.op = "stake" /\ result'.ok) =>
         \A a \in Addr, v \in Values : stake(a, v) => StakePost(a, v)]_vars

\* stake(2) then stake(1) before the unlock time: staked 1, unstaking 1 and a
\* deadline in the future.
C6_Witness ==
    /\ result.op = "stake" /\ result.ok
    /\ \E a \in Addr : Staked(a) = 1 /\ Unstaking(a) = 1 /\ UnlockTime(a) > now

\* C7. Stake preconditions: stake(value) by a commits if and only if staking
\* is enabled, 0 <= value <= total_balance(a), value == 0 or value >=
\* minimum_stake, and a is not on the locklist.
StakeEnabled(a, v) ==
    /\ staking_enabled
    /\ 0 <= v /\ v <= balances[a]
    /\ v = 0 \/ v >= minimum_stake
    /\ ~Contains(locklist, a)

\* stake(value) by a would commit in this state
StakeCommits(a, v) == ENABLED (stake(a, v) /\ result'.ok)

C7_StakePreconditions ==
    \A a \in Addr, v \in Values : StakeCommits(a, v) <=> StakeEnabled(a, v)

\* A stake was rejected while staking is enabled, and the stakers hold
\* funds: the value, the minimum or the locklist rejected it.
C7_Witness ==
    /\ result.op = "stake" /\ ~result.ok
    /\ staking_enabled /\ minimum_stake > 0 /\ locklist # <<>>
    /\ balances["user"] > 0

\* C8. Forced unstake: locklisting an address with staked = s > 0 zeroes
\* staked, moves s into unstaking after matured unstaking was settled into
\* available, sets the deadline to now + unstaking_period, lowers the
\* total-staked counter by s, keeps total_balance and puts the address in the
\* active stake-change buffer; with staked == 0 the staking records, the
\* counter and the stake-change buffers are unchanged.
ForcedUnstakePost(a) ==
    LET s == Staked(a)
    IN /\ balances' = balances
       /\ IF s > 0
          THEN /\ staked_balances'[a][STAKED] = 0
               /\ staked_balances'[a][UNSTAKING] = SettledUnstaking(a) + s
               /\ staked_balances'[a][AVAILABLE] = SettledAvailable(a)
               /\ staked_balances'[a][UNSTAKING_PERIOD] = now + unstaking_period
               /\ total_staked_balance' = total_staked_balance - s
               /\ Contains(stake_changes'[stake_update_db'], a)
          ELSE /\ staked_balances' = staked_balances
               /\ total_staked_balance' = total_staked_balance
               /\ stake_changes' = stake_changes

C8_ForcedUnstake ==
    [][(result'.op = "set_locklist_address" /\ result'.ok) =>
         \A a \in Addr : set_locklist_address(owner, a) => ForcedUnstakePost(a)]_vars

\* A locklisted address whose stake of 1 joined an unstaking amount of 1
\* that had not matured.
C8_Witness ==
    /\ result.op = "set_locklist_address" /\ result.ok
    /\ \E a \in Addr :
        Contains(locklist, a) /\ Staked(a) = 0 /\ Unstaking(a) >= 2 /\ UnlockTime(a) > now


\* C9. Duplicate suppression: in every reachable state neither balance-change
\* buffer and neither stake-change buffer holds the same address twice.
NoDuplicates(s) == \A i \in DOMAIN s, j \in DOMAIN s : s[i] = s[j] => i = j

C9_DuplicateSuppression ==
    \A d \in 0..1 : NoDuplicates(changes[d]) /\ NoDuplicates(stake_changes[d])

\* C10. Flip then drain, balance dimension.  Between a flip and the drain's
\* auto-advance, get_balance_updates on the now-previous buffer returns, in
\* order, the entries of that buffer that were undelivered at the flip and
\* nothing else, all of them by the time the drain auto-advances; no entry
\* recorded after the flip is read before the auto-advance.
IsPrefix(a, b) == Len(a) <= Len(b) /\ SubSeq(b, 1, Len(a)) = a

\* a committed drain call
Drained == result'.op = "get_balance_updates" /\ result'.ok

\* the call reads the now-previous buffer
ReadsPrevious == balance_update_db # address_update_db

\* what the drains have read is a prefix of what was pending at the flip,
\* and the whole of it when the drain auto-advances
DeliversPending ==
    /\ IsPrefix(hist'.delivered, hist.pending)
    /\ hist'.advanced => hist.delivered = hist.pending

\* the call reads no entry put on the active buffer after the flip
NothingRecordedAfterFlip ==
    ~(/\ balance_update_db = address_update_db
      /\ index_update_balance' > index_update_balance
      /\ index_update_balance' > hist.newLen)

Tracking(h) == Window(h) /\ h.caught /\ ~h.popped

Rejected == result'.op \in {"stake", "transfer"} /\ ~result'.ok

C17_ErrorAtomicity == [][Rejected => UNCHANGED ledger]_vars

\* A stake by the locklisted user was rejected while the user had matured
\* unstaking that the call settled before it reached the locklist check.
C17_Witness ==
    /\ result.op = "stake" /\ ~result.ok
    /\ staking_enabled /\ Contains(locklist, "user")
    /\ Unstaking("user") > 0 /\ Matured("user")

\* C20. Total-staked counter: in every reachable state the counter equals
\* the sum of staked over all accounts, and is at most total_supply.
StakedOf == [a \in Addr |-> Staked(a)]

C20_TotalStaked ==
    /\ total_staked_balance = Sum(StakedOf, Addr)
    /\ total_staked_balance <= total_supply

\* A forced unstake has taken the user's stake out of the counter while
\* the owner's stake remains in it.
C20_Witness ==
    /\ result.op = "set_locklist_address" /\ result.ok
    /\ Staked("owner") > 0 /\ Staked("user") = 0 /\ Unstaking("user") > 0
    /\ total_staked_balance = Staked("owner")

\* C18. Reentrancy ordering: a transfer writes nothing after the recipient's
\* hook has returned, so a committed transfer is recorded in the buffer that
\* was active when it was called, whatever the hook did: the other buffer
\* is unchanged and the selector is the one the hook left.
C18_ReentrancyOrdering ==
    [][(result'.op = "transfer" /\ result'.ok) =>
         LET other == (address_update_db + 1) % 2
         IN changes'[other] = changes[other]]_vars

\* the last call was a committed flip of the stake dimension
StakeFlipped == result.op = "switch_stake_update_db" /\ result.ok

\* a committed drain call of the stake dimension
StakeDrained == result'.op = "get_stake_updates" /\ result'.ok

\* C11: flip then drain, stake dimension.  The drain that follows
\* switch_stake_update_db, with max_loop at least the length of the
\* now-previous stake buffer, returns exactly the addresses recorded in that
\* buffer before the flip.
C11_StakeFlipThenDrain ==
    [][(StakeFlipped /\ StakeDrained) =>
         LET previous == stake_changes[(stake_update_db + 1) % 2]
         IN max_loop >= Len(previous) => result'.page = DictKeys(previous)]_vars

\* C12: cursor monotonicity.  The drain cursor of a dimension never
\* decreases across an operation other than the flip of that dimension.
C12_CursorMonotonicity ==
    [][/\ result'.op # "switch_address_update_db" =>
             index_update_balance' >= index_update_balance
       /\ result'.op # "switch_stake_update_db" =>
             index_stake_changes' >= index_stake_changes]_vars

\* the call r committed and returned an empty page
EmptyPage(r, op) == r.op = op /\ r.ok /\ r.page = <<>>

\* a drain call that returns an address or changes the ledger
BalanceDrainActs ==
    /\ get_balance_updates("score")
    /\ result'.ok
    /\ result'.page # <<>> \/ ledger' # ledger

StakeDrainActs ==
    /\ get_stake_updates("score")
    /\ result'.ok
    /\ result'.page # <<>> \/ ledger' # ledger

\* C13: drain idempotence.  After the drain of a dimension has returned an
\* empty page on two consecutive calls, a further drain call returns an
\* empty page and changes no state.
C13_DrainIdempotence ==
    [][/\ (EmptyPage(result, "get_balance_updates")
           /\ EmptyPage(result', "get_balance_updates"))
          => (~ENABLED BalanceDrainActs)'
       /\ (EmptyPage(result, "get_stake_updates")
           /\ EmptyPage(result', "get_stake_updates"))
          => (~ENABLED StakeDrainActs)']_vars

\* The keys of one page a drain returns from cursor start with max_loop loops
Page(buf, start, loops) ==
    DictKeys(Slice(buf, start, Min(start + loops, Len(buf))))

\* The pages of repeated drains with max_loop = 1, concatenated
RECURSIVE PagedDrain(_, _)
PagedDrain(buf, start) ==
    IF start = Len(buf) \/ Page(buf, start, 1) = <<>> THEN <<>>
    ELSE Page(buf, start, 1) \o PagedDrain(buf, Min(start + 1, Len(buf)))

\* paged and single drain agree and deliver the buffer from the cursor on
PaginationComplete(buf, start) ==
    start \in 0..Len(buf) =>
       /\ PagedDrain(buf, start) = Page(buf, start, Len(buf))
       /\ PagedDrain(buf, start) = SubSeq(buf, start + 1, Len(buf))

\* C14: pagination completeness.  From the same state, the pages of
\* repeated drains with max_loop = 1, up to the first empty page, deliver
\* the same addresses in the same order as one drain with max_loop at least
\* the buffer length, and both equal the buffer from the cursor to its end.
C14_PaginationCompleteness ==
    /\ PaginationComplete(changes[balance_update_db], index_update_balance)
    /\ PaginationComplete(stake_changes[stake_update_db], index_stake_changes)

\* the selectors, the cursors and the account state
Selectors == <<address_update_db, balance_update_db, stake_update_db>>

Cursors == <<index_address_changes, index_update_balance, index_stake_changes>>

Accounts == <<total_supply, addresses, balances, staked_balances, total_staked_balance>>

\* what a clear call does to the two buffers buf of a dimension whose active
\* buffer is buf[active]
ClearPost(buf, buf_, active) ==
    LET yesterday == (active + 1) % 2
        removed == Len(buf[yesterday]) - Len(buf_[yesterday])
    IN /\ removed <= Max(max_loop, 0)
       /\ IsPrefix(buf_[yesterday], buf[yesterday])
       /\ buf_[active] = buf[active]
       /\ UNCHANGED <<Selectors, Cursors, Accounts>>
       /\ result'.flag <=> buf_[yesterday] = <<>>

\* C15: bounded clear.  A clear call removes at most max_loop entries (none
\* when max_loop is negative), all from the tail of the non-active buffer of
\* its dimension, leaves the active buffer, the selectors, the cursors and
\* the account state unchanged, and returns True exactly when the non-active
\* buffer is empty after the call.
C15_BoundedClear ==
    [][/\ (result'.op = "clear_yesterdays_changes" /\ result'.ok)
          => /\ ClearPost(changes, changes', address_update_db)
             /\ UNCHANGED stake_changes
       /\ (result'.op = "clear_yesterdays_stake_changes" /\ result'.ok)
          => /\ ClearPost(stake_changes, stake_changes', stake_update_db)
             /\ UNCHANGED changes]_vars

\* a clear of a buffer of two entries has popped one and reports it not empty
C15_Witness ==
    /\ result.op = "clear_yesterdays_changes"
    /\ result.ok
    /\ ~result.flag
    /\ max_loop = 1
    /\ Len(changes[(address_update_db + 1) % 2]) = 1

\* C16: authorization.  A drain, clear or flip operation called by another
\* address than the registered dividends address, and a configuration setter
\* called by another address than the owner, fails with an error and leaves
\* the ledger unchanged.
C16_Authorization ==
    [][(\/ \E sender \in Addr \ {owner} : ConfigurationSetter(sender)
        \/ \E sender \in Addr \ {dividends_score} : TrackingOperation(sender))
       => ~result'.ok /\ UNCHANGED ledger]_vars

\* C19: empty page means done.  A drain returns an empty page only when the
\* cursor equals the length of the buffer being drained; when that buffer
\* holds entries at or beyond the cursor, the call returns at least one of
\* them and advances the cursor.
C19_EmptyPageMeansDone ==
    [][/\ (result'.op = "get_balance_updates" /\ result'.ok)
          => LET pending == index_update_balance < Len(changes[balance_update_db])
             IN /\ result'.page = <<>>
                   => index_update_balance = Len(changes[balance_update_db])
                /\ pending => /\ result'.page # <<>>
                              /\ index_update_balance' > index_update_balance
       /\ (result'.op = "get_stake_updates" /\ result'.ok)
          => LET pending == index_stake_changes < Len(stake_changes[stake_update_db])
             IN /\ result'.page = <<>>
                   => index_stake_changes = Len(stake_changes[stake_update_db])
                /\ pending => /\ result'.page # <<>>
                              /\ index_stake_changes' > index_stake_changes]_vars

\* a committed flip of the balance dimension, of the stake dimension
BalanceFlip == result'.op = "switch_address_update_db" /\ result'.ok

StakeFlip == result'.op = "switch_stake_update_db" /\ result'.ok

\* the flip toggles the selector and changes no buffer
FlipToggles(selector, selector_) ==
    /\ selector \in {0, 1}
    /\ selector_ = 1 - selector
    /\ UNCHANGED <<changes, stake_changes>>

\* The claim as stated: the offset is the length of the now-previous buffer.
C21_FlipOffset_Previous ==
    [][/\ BalanceFlip => /\ FlipToggles(address_update_db, address_update_db')
                         /\ index_address_changes' = Len(changes[address_update_db])
       /\ StakeFlip => /\ FlipToggles(stake_update_db, stake_update_db')
                       /\ index_stake_changes' = Len(stake_changes[stake_update_db])]_vars

\* C21: flip offset.  A flip of a dimension toggles the active-buffer
\* selector of that dimension between 0 and 1, changes no buffer contents,
\* and sets the start offset of the dimension to the current length of the
\* buffer the flip makes active.
C21_FlipOffset ==
    [][/\ BalanceFlip => /\ FlipToggles(address_update_db, address_update_db')
                         /\ index_address_changes' = Len(changes[address_update_db'])
       /\ StakeFlip => /\ FlipToggles(stake_update_db, stake_update_db')
                       /\ index_stake_changes' = Len(stake_changes[stake_update_db'])]_vars

\* a flip back to a buffer that still holds two entries, leaving an empty one
C21_Witness ==
    /\ result.op = "switch_address_update_db" /\ result.ok
    /\ Len(changes[address_update_db]) = 2
    /\ Len(changes[(address_update_db + 1) % 2]) = 0
    /\ index_address_changes = 2

\* C22: locked accounts hold no stake.  In every reachable state every
\* address on the locklist has staked = 0.
C22_LockedHoldNoStake ==
    \A a \in Addr : Contains(locklist, a) => Staked(a) = 0

\* a transfer has committed while the user, whose stake the locklisting
\* turned into unstaking, is still on the locklist
C22_Witness ==
    /\ result.op = "transfer" /\ result.ok
    /\ Contains(locklist, "user")
    /\ Unstaking("user") > 0
    /\ staking_enabled

\* a clear call on a non-active buffer of length L removes min(L, max_loop)
\* entries with max_loop at least 1, so that ceil(L / max_loop) calls empty
\* it, and returns True once it is empty; a call that returns False without
\* removing an entry leaves the ledger as it was, and so does every further
\* call
ClearProgress(buf, buf_, active) ==
    LET yesterday == (active + 1) % 2
        L == Len(buf[yesterday])
    IN /\ L > 0 => /\ max_loop >= 1
                   /\ Len(buf_[yesterday]) = L - Min(L, max_loop)
       /\ result'.flag <=> Len(buf_[yesterday]) = 0

\* C23: clear terminates.  Repeated clear calls of a dimension with no flip
\* in between return True after at most ceil(L / max_loop) calls for a
\* non-active buffer of length L, and keep returning True, for every value
\* max_loop can hold.
C23_ClearTerminates ==
    [][/\ (result'.op = "clear_yesterdays_changes" /\ result'.ok)
          => ClearProgress(changes, changes', address_update_db)
       /\ (result'.op = "clear_yesterdays_stake_changes" /\ result'.ok)
          => ClearProgress(stake_changes, stake_changes', stake_update_db)]_vars

\* the balances of a after first-touch migration and settlement at now
Settled(a) == _makeAvailable(_check_first_time(staked_balances, a), a)[a]

\* C24: view agrees with settlement.  For every account and every now, the
\* views report the available and unstaking amounts the account has after
\* first-touch migration and settlement at that now; hence a transfer by an
\* unpaused, non-locklisted sender of value v commits exactly when
\* 0 <= v <= available_balanceOf(sender).
C24_ViewAgreesWithSettlement ==
    /\ \A a \in Addr :
          /\ available_balanceOf(a) = Settled(a)[AVAILABLE]
          /\ unstaked_balanceOf(a) = Settled(a)[UNSTAKING]
          /\ details_balanceOf(a).available_balance = Settled(a)[AVAILABLE]
          /\ details_balanceOf(a).unstaking_balance = Settled(a)[UNSTAKING]
    /\ \A s \in {"owner", "user"}, v \in Values :
          (~paused /\ ~Contains(locklist, s))
             => (TransferCommits(s, "user", v) <=> (0 <= v /\ v <= available_balanceOf(s)))

\* the addresses a clear call pops from the non-active buffer of buf
Popped(buf, buf_, active) ==
    LET yesterday == (active + 1) % 2
    IN {buf[yesterday][i] : i \in (Len(buf_[yesterday]) + 1)..Len(buf[yesterday])}

\* C25: no undelivered entry is cleared.  When a drain of the dimension has
\* returned an empty page since the most recent flip of that dimension, every
\* address a clear call pops was returned by a drain of that dimension before.
C25_NoUndeliveredCleared ==
    [][/\ (result'.op = "clear_yesterdays_changes" /\ result'.ok /\ hist.emptied)
          => Popped(changes, changes', address_update_db) \subseteq hist.returned
       /\ (result'.op = "clear_yesterdays_stake_changes" /\ result'.ok /\ hist.stakeEmptied)
          => Popped(stake_changes, stake_changes', stake_update_db)
                \subseteq hist.stakeReturned]_vars
====
